---- MODULE Spec2Model ----
(***************************************************************************)
(* A model of testdoc's compile() (src/src/compile.js): markdown code      *)
(* blocks are scanned, each sample is parsed and traversed, annotated      *)
(* expression statements are rewritten into runtime-helper calls, import   *)
(* declarations are hoisted, the program is assembled and its import       *)
(* specifiers are remapped by the resolveModuleSource hook.                *)
(*                                                                         *)
(* JavaScript strings that the code inspects character by character        *)
(* (comments, titles, import specifiers, paths) are sequences of           *)
(* one-character strings.  Syntax trees are records.                       *)
(*                                                                         *)
(* A sample is written as statements that carry the texts of the comments  *)
(* around them.  Babylon.parse makes one comment object of each and        *)
(* attaches it to the statement before it (trailingComments) and to the    *)
(* statement after it (leadingComments).  The traversal is babel-traverse's *)
(* over these statements: a replaced statement hands its comments to its   *)
(* replacement, a removed one shares them with its neighbours, and an      *)
(* import declaration that is the body of a labelled statement, an if or a *)
(* loop is removed by the removal hooks of path.remove().                  *)
(***************************************************************************)
EXTENDS Naturals, Integers, Sequences, FiniteSets, TLC

VARIABLES
  source,            \* the markdown document: the sequence of its blocks
  options,           \* compile's options: name, filename
  fs,                \* the package.json files on disk
  pc,                \* compile's position
  testCaseList,      \* samples found by the scan (lines 45-62)
  importList,        \* hoisted import declarations (line 66)
  caseList,          \* it(...) statements (line 67)
  program,           \* the assembled / transformed program body
  packageJSONCache,  \* the per-directory manifest cache (line 139)
  cursor,            \* index of the next sample / program statement
  output,            \* what compile returns
  tree,              \* the sample under a repeated traversal
  passes             \* how often tree was traversed

vars == <<source, options, fs, pc, testCaseList, importList, caseList,
          program, packageJSONCache, cursor, output, tree, passes>>

----------------------------------------------------------------------------
(* Bounds of the model                                                     *)

MaxBlocks == 3
MaxStmts == 3
MaxWs == 1
MaxRest == 2
MaxRequeue == 2
MaxDepth == 3
MaxPasses == 2

----------------------------------------------------------------------------
(* JavaScript values and strings                                           *)

Undefined == [t |-> "undefined"]
Null == [t |-> "null"]
Str(s) == [t |-> "string", v |-> s]

\* a value is truthy unless it is undefined, null or the empty string
Truthy(v) == v.t \notin {"undefined", "null"} /\ (v.t = "string" => v.v # <<>>)

\* a || b
Or(a, b) == IF Truthy(a) THEN a ELSE b

SetMax(S) == CHOOSE x \in S : \A y \in S : y <= x

\* s.slice(n)
Slice(s, n) == SubSeq(s, n + 1, Len(s))

\* s.slice(0, n)
SliceTo(s, n) == SubSeq(s, 1, n)

\* whether lit occurs in s right after the first i characters
LitAt(s, i, lit) ==
  /\ i + Len(lit) <= Len(s)
  /\ \A j \in 1..Len(lit) : s[i + j] = lit[j]

RECURSIVE Join(_, _)
\* parts.join(sep)
Join(parts, sep) ==
  IF Len(parts) = 0 THEN <<>>
  ELSE IF Len(parts) = 1 THEN parts[1]
  ELSE parts[1] \o sep \o Join(Tail(parts), sep)

\* A character is a string of length one when it is an ASCII character, and
\* the name of its code point, as "U+00A0", otherwise.

\* the characters of the class \s outside ASCII
UnicodeSpaces ==
  {"U+00A0", "U+1680", "U+2000", "U+2001", "U+2002", "U+2003", "U+2004",
   "U+2005", "U+2006", "U+2007", "U+2008", "U+2009", "U+200A", "U+2028",
   "U+2029", "U+202F", "U+205F", "U+3000", "U+FEFF"}

\* the regular expression class \s: space, tab, line feed, vertical tab,
\* form feed, carriage return, and the white space outside ASCII
IsSpace(c) ==
  c \in {" ", "\t", "\n", "", "\f", "\r"} \cup UnicodeSpaces

\* the regular expression class [a-zA-Z]
IsLetter(c) ==
  c \in {"a", "b", "c", "d", "e", "f", "g", "h", "i", "j", "k", "l", "m",
         "n", "o", "p", "q", "r", "s", "t", "u", "v", "w", "x", "y", "z",
         "A", "B", "C", "D", "E", "F", "G", "H", "I", "J", "K", "L", "M",
         "N", "O", "P", "Q", "R", "S", "T", "U", "V", "W", "X", "Y", "Z"}

NoMatch == [matched |-> FALSE, length |-> 0, group1 |-> <<>>]

\* what follows \s* in REPR_ASSERTION_RE: the two characters => and a space
ReprMarker(s, k) == LitAt(s, k, <<"=", ">", " ">>)

\* the ways /^\s*=> / matches s: \s* takes k characters
ReprMatches(s) ==
  {k \in 0..Len(s) : (\A j \in 1..k : IsSpace(s[j])) /\ ReprMarker(s, k)}

\* the match the expression reports: \s* is greedy
ReprResult(ks) ==
  IF ks = {} THEN NoMatch
  ELSE [matched |-> TRUE, length |-> SetMax(ks) + 3, group1 |-> <<>>]

\* REPR_ASSERTION_RE.exec(s), /^\s*=> /
REPR_ASSERTION_RE(s) == ReprResult(ReprMatches(s))

\* what follows the group in ERR_ASSSERTION_RE: a colon and a space
ErrTail(s, i) == LitAt(s, i, <<":", " ">>)

\* the ways /^\s*([a-zA-Z]*Error): / matches s: \s* takes km[1] characters
\* and [a-zA-Z]* takes km[2]
ErrMatches(s) ==
  {km \in (0..Len(s)) \X (0..Len(s)) :
     /\ km[1] + km[2] <= Len(s)
     /\ \A j \in 1..km[1] : IsSpace(s[j])
     /\ \A j \in (km[1] + 1)..(km[1] + km[2]) : IsLetter(s[j])
     /\ LitAt(s, km[1] + km[2], <<"E", "r", "r", "o", "r">>)
     /\ ErrTail(s, km[1] + km[2] + 5)}

\* the greedy way: the longest \s*, then the longest [a-zA-Z]*
ErrGreedy(ms) ==
  CHOOSE km \in ms :
    \A o \in ms : o[1] < km[1] \/ (o[1] = km[1] /\ o[2] <= km[2])

ErrGroups(s, km) ==
  [matched |-> TRUE, length |-> km[1] + km[2] + 7,
   group1 |-> SubSeq(s, km[1] + 1, km[1] + km[2] + 5)]

ErrResult(s, ms) == IF ms = {} THEN NoMatch ELSE ErrGroups(s, ErrGreedy(ms))

\* ERR_ASSSERTION_RE.exec(s), /^\s*([a-zA-Z]*Error): /
ERR_ASSSERTION_RE(s) == ErrResult(s, ErrMatches(s))

\* s.replace(re, '') for an anchored expression: the match is cut off
ReplaceMatch(s, match) == IF match.matched THEN Slice(s, match.length) ELSE s

----------------------------------------------------------------------------
(* Syntax trees                                                            *)

NoExpr == [type |-> "None"]

Identifier(name) == [type |-> "Identifier", name |-> name]

\* types.stringLiteral(value)
stringLiteral(value) == [type |-> "StringLiteral", value |-> value]

CallExpression(callee, arguments) ==
  [type |-> "CallExpression", callee |-> callee, arguments |-> arguments]

\* __MochaDoctestRuntime.<property>
RuntimeMember(property) ==
  [type |-> "MemberExpression", object |-> "__MochaDoctestRuntime",
   property |-> property]

AwaitExpression(argument) == [type |-> "AwaitExpression", argument |-> argument]

\* async () => body
AsyncArrow(body) ==
  [type |-> "ArrowFunctionExpression", async |-> TRUE, params |-> <<>>,
   body |-> body]

\* a comment of the sample: its text and its place among the sample's
\* comments, which tells two comments of the same text apart
Comment(value, start) == [value |-> value, start |-> start]

\* a statement node; every statement carries the same fields.  A labelled
\* statement, an if statement (without else) and a while loop keep their
\* one body statement in body.
Statement(type, expression, body, src, trailingComments) ==
  [type |-> type, expression |-> expression, body |-> body, source |-> src,
   leadingComments |-> <<>>, trailingComments |-> trailingComments,
   TESTDOC_SEEN |-> FALSE]

ExpressionStatement(expression, trailingComments) ==
  Statement("ExpressionStatement", expression, <<>>, <<>>, trailingComments)

VariableDeclaration(init, trailingComments) ==
  Statement("VariableDeclaration", init, <<>>, <<>>, trailingComments)

ImportDeclaration(src, trailingComments) ==
  Statement("ImportDeclaration", NoExpr, <<>>, src, trailingComments)

BlockStatement(body) == Statement("BlockStatement", NoExpr, body, <<>>, <<>>)

\* label: body
LabeledStatement(body) ==
  Statement("LabeledStatement", NoExpr, <<body>>, <<>>, <<>>)

\* if (test) body
IfStatement(body) == Statement("IfStatement", NoExpr, <<body>>, <<>>, <<>>)

\* while (test) body
WhileStatement(body) ==
  Statement("WhileStatement", NoExpr, <<body>>, <<>>, <<>>)

\* the statements that hold one statement under a key of their own
HasBodyStatement(node) ==
  node.type \in {"LabeledStatement", "IfStatement", "WhileStatement"}

\* caseExpression(body, options): function (async) () { body }
caseExpression(body, async) ==
  [type |-> "FunctionExpression", id |-> Null, params |-> <<>>, body |-> body,
   generator |-> FALSE, async |-> async]

----------------------------------------------------------------------------
(* Annotation detection and rewriting                                      *)

\* findAssertion(node): "repr", "error" or "false" (JavaScript's false)
findAssertion(node) ==
  IF /\ node.type = "ExpressionStatement"
     /\ Len(node.trailingComments) > 0
  THEN LET firstLine == node.trailingComments[1].value
       IN IF REPR_ASSERTION_RE(firstLine).matched THEN "repr"
          ELSE IF ERR_ASSSERTION_RE(firstLine).matched THEN "error"
          ELSE "false"
  ELSE "false"

\* comment.value.slice(1) of a continuation comment
RestLine(value) == Slice(value, 1)

\* node.trailingComments.slice(1).map(comment => comment.value.slice(1))
RestLines(node) ==
  [i \in 1..(Len(node.trailingComments) - 1) |->
     RestLine(node.trailingComments[i + 1].value)]

NL == <<"\n">>

\* the repr branch of parseExpectationFromNode
ParseRepr(firstLine, restLines) ==
  [repr |-> stringLiteral(
              Join(<<ReplaceMatch(firstLine, REPR_ASSERTION_RE(firstLine))>>
                   \o restLines, NL)),
   name |-> Undefined, message |-> Undefined]

\* the error branch of parseExpectationFromNode, match being
\* ERR_ASSSERTION_RE.exec(firstLine)
ParseError(firstLine, restLines, match) ==
  [repr |-> Undefined,
   name |-> stringLiteral(match.group1),
   message |-> stringLiteral(
                 Join(<<ReplaceMatch(firstLine, match)>> \o restLines, NL))]

\* parseExpectationFromNode(node, assertion)
parseExpectationFromNode(node, assertion) ==
  IF assertion = "repr"
  THEN ParseRepr(node.trailingComments[1].value, RestLines(node))
  ELSE ParseError(node.trailingComments[1].value, RestLines(node),
                  ERR_ASSSERTION_RE(node.trailingComments[1].value))

\* stmt`__MochaDoctestRuntime.assertRepr(${expression}, "${repr}");`
ReprStatement(expression, repr) ==
  ExpressionStatement(
    CallExpression(RuntimeMember("assertRepr"), <<expression, repr>>), <<>>)

\* stmt`async function dummy() { await __MochaDoctestRuntime.assertError(
\*   async () => ${expression}, "${name}", "${message}"); }`.body.body[0]
ErrorStatement(expression, name, message) ==
  ExpressionStatement(
    AwaitExpression(
      CallExpression(RuntimeMember("assertError"),
                     <<AsyncArrow(expression), name, message>>)), <<>>)

\* the comments c is added to, unless it is among them
UniqAdd(comments, c) ==
  IF \E i \in 1..Len(comments) : comments[i] = c THEN comments
  ELSE Append(comments, c)

RECURSIVE Uniq(_)
\* uniq(comments): each comment once, at its first place
Uniq(comments) ==
  IF Len(comments) = 0 THEN <<>>
  ELSE UniqAdd(Uniq(SubSeq(comments, 1, Len(comments) - 1)),
               comments[Len(comments)])

\* t.inheritsComments(child, parent): child[key] =
\* uniq(compact([].concat(child[key], parent[key]))) for both keys
inheritsComments(child, parent) ==
  [child EXCEPT !.leadingComments = Uniq(@ \o parent.leadingComments),
                !.trailingComments = Uniq(@ \o parent.trailingComments)]

\* t.removeComments(node)
removeComments(node) ==
  [node EXCEPT !.leadingComments = <<>>, !.trailingComments = <<>>]

\* path.addComments("trailing", comments): node.trailingComments.concat
addTrailingComments(node, comments) ==
  [node EXCEPT !.trailingComments = @ \o comments]

\* path.addComments("leading", comments)
addLeadingComments(node, comments) ==
  [node EXCEPT !.leadingComments = @ \o comments]

\* path.replaceWithMultiple(nodes), nodes being one statement: it inherits
\* the leading and the trailing comments of the node (inheritLeadingComments
\* on the first, inheritTrailingComments on the last of nodes) and is put
\* in the node's place
replaceWithMultiple(node, nodes) == inheritsComments(nodes, node)

\* no statement counts as seen
NeverSeen(node) == TRUE

\* !path.node[TESTDOC_SEEN]
NotSeen(node) == ~node.TESTDOC_SEEN

\* the statement built for an assertion and its parsed expectation
AssertionStatement(node, assertion, expectation) ==
  IF assertion = "repr"
  THEN ReprStatement(node.expression, expectation.repr)
  ELSE ErrorStatement(node.expression, expectation.name, expectation.message)

\* nodes[TESTDOC_SEEN] = true
MarkSeen(nodes) == [nodes EXCEPT !.TESTDOC_SEEN = TRUE]

\* the body of the enter visitor, assertion being findAssertion(path.node):
\* what it asks of the path.  What path.remove() does to the tree depends
\* on where the node hangs: see shareCommentsWithSiblings and BodyResult.
EnterWith(node, assertion) ==
  IF NotSeen(node) /\ assertion # "false"
  THEN [op |-> "replace",
        node |-> replaceWithMultiple(
                   node,
                   MarkSeen(AssertionStatement(
                              node, assertion,
                              parseExpectationFromNode(node, assertion))))]
  ELSE IF node.type = "ImportDeclaration"
  THEN [op |-> "remove", node |-> node]
  ELSE [op |-> "none", node |-> node]

\* the enter visitor: what happens to the visited node
enter(node) == EnterWith(node, findAssertion(node))

\* What a visit leaves of a statement, for the container that holds it:
\*   keep: node stays in place (with what the visit changed inside it);
\*   swap: node is the replacement built by replaceWithMultiple;
\*   gone: node was removed by path.remove(), after are statements inserted
\*         behind it before it went.
\* imports are the import declarations pushed to importList on the way.
Kept(node, imports) ==
  [op |-> "keep", node |-> node, after |-> <<>>, imports |-> imports]

Swapped(node) ==
  [op |-> "swap", node |-> node, after |-> <<>>, imports |-> <<>>]

Removed(node, after, imports) ==
  [op |-> "gone", node |-> node, after |-> after, imports |-> imports]

\* the replacement visited again, r being the outcome of enter
RequeuedWith(node, r, requeue) ==
  IF r.op = "replace" /\ requeue > 0 THEN [again |-> TRUE, node |-> r.node]
  ELSE [again |-> FALSE, node |-> node]

RECURSIVE Requeued(_, _)
\* A replacement is queued and visited in turn; the visit reads the marker
\* and leaves a marked statement alone.  (The code queues without limit;
\* the model stops after requeue visits.)
Requeued(node, requeue) ==
  IF RequeuedWith(node, enter(node), requeue).again
  THEN Requeued(RequeuedWith(node, enter(node), requeue).node, requeue - 1)
  ELSE node

\* the empty block that takes the place of a removed body: it inherits the
\* comments of the node removed (path.replaceWith)
EmptyBody(o) ==
  IF Len(o.after) = 0 THEN inheritsComments(BlockStatement(<<>>), o.node)
  ELSE BlockStatement(<<>>)

\* the imports pushed below an if or a loop whose body was removed:
\* path.replaceWith removes the comments of the node it replaces
HoistedFromBody(o) ==
  IF o.node.type = "ImportDeclaration" THEN <<removeComments(o.node)>>
  ELSE o.imports

\* What becomes of a labelled statement, an if or a loop, o being the
\* outcome of the visit of its body statement.
\*  - replaceWithMultiple on the body: insertAfter hands the replacement to
\*    the path of a labelled statement, and wraps it in a block under an
\*    if or a loop;
\*  - path.remove() on the body runs the removal hooks: a labelled
\*    statement is removed with its body (parent.remove()), the body of an
\*    if or a loop is replaced by an empty block.
BodyResult(node, o) ==
  IF o.op = "keep"
  THEN Kept([node EXCEPT !.body = <<o.node>>], o.imports)
  ELSE IF node.type = "LabeledStatement"
  THEN Removed(node, IF o.op = "swap" THEN <<o.node>> ELSE o.after,
               o.imports)
  ELSE IF o.op = "swap"
  THEN Kept([node EXCEPT !.body = <<BlockStatement(<<o.node>>)>>], <<>>)
  ELSE Kept([node EXCEPT !.body = <<EmptyBody(o)>>], HoistedFromBody(o))

\* a block whose statements were traversed
BlockResult(node, inner) ==
  Kept([node EXCEPT !.body = inner.body], inner.imports)

\* path.shareCommentsWithSiblings() of a statement removed from a list,
\* done being the statements before it and rest those after it:
\*   prev = getSibling(key - 1); next = getSibling(key + 1);
\*   if (!prev.node) prev = next; if (!next.node) next = prev;
\*   prev.addComments("trailing", leading);
\*   next.addComments("leading", trailing);
\* SharedPrev yields done, SharedNext yields rest after the call.
SharedPrev(done, node, rest) ==
  IF Len(done) = 0 THEN done
  ELSE IF Len(rest) = 0
  THEN [done EXCEPT ![Len(done)] =
          addLeadingComments(
            addTrailingComments(@, node.leadingComments),
            node.trailingComments)]
  ELSE [done EXCEPT ![Len(done)] =
          addTrailingComments(@, node.leadingComments)]

SharedNext(done, node, rest) ==
  IF Len(rest) = 0 THEN rest
  ELSE IF Len(done) = 0
  THEN [rest EXCEPT ![1] =
          addLeadingComments(
            addTrailingComments(@, node.leadingComments),
            node.trailingComments)]
  ELSE [rest EXCEPT ![1] = addLeadingComments(@, node.trailingComments)]

RECURSIVE visit(_)
RECURSIVE traverseFrom(_, _, _)

\* What a visit leaves, r being the outcome of enter.  A node that enter
\* replaced or removed is not descended into.
VisitOutcome(node, r) ==
  IF r.op = "replace" THEN Swapped(Requeued(r.node, MaxRequeue))
  ELSE IF r.op = "remove" THEN Removed(node, <<>>, <<node>>)
  ELSE IF node.type = "BlockStatement"
  THEN BlockResult(node, traverseFrom(<<>>, node.body, <<>>))
  ELSE IF HasBodyStatement(node)
  THEN BodyResult(node, visit(node.body[1]))
  ELSE Kept(node, <<>>)

\* one queued path is visited
visit(node) == VisitOutcome(node, enter(node))

\* the list goes on after a visit with outcome o: a removed statement
\* shares its comments and leaves the list, any other stays in its place
ListStep(done, o, rest, imports) ==
  IF o.op = "gone"
  THEN traverseFrom(SharedPrev(done, o.node, o.after \o rest),
                    SharedNext(done, o.node, o.after \o rest),
                    imports \o o.imports)
  ELSE traverseFrom(Append(done, o.node), rest, imports \o o.imports)

\* the statements of a container are visited in order: done are those
\* visited, todo those to visit, imports the declarations pushed so far
traverseFrom(done, todo, imports) ==
  IF Len(todo) = 0 THEN [body |-> done, imports |-> imports]
  ELSE ListStep(done, visit(Head(todo)), Tail(todo), imports)

\* the statements of a container are visited
traverseList(stmts) == traverseFrom(<<>>, stmts, <<>>)

\* traverse(node, {enter}) over the body of the synthetic testcase function
traverse(body) == traverseList(body)

----------------------------------------------------------------------------
(* Paths and the package.json lookup                                       *)

SLASH == <<"/">>
DOT == <<".">>
DOTDOT == <<".", ".">>
PACKAGE_JSON == <<"p", "a", "c", "k", "a", "g", "e", ".", "j", "s", "o", "n">>

\* process.cwd(), as path segments: /p
Cwd == << <<"p">> >>

\* the babel option filename when compile is given none
UNKNOWN == <<"u", "n", "k", "n", "o", "w", "n">>

RECURSIVE Split(_)
\* the non-empty segments of a path string
Split(p) ==
  IF Len(p) = 0 THEN <<>>
  ELSE LET slashes == {i \in 1..Len(p) : p[i] = "/"}
       IN IF slashes = {} THEN <<p>>
          ELSE LET i == CHOOSE x \in slashes : \A y \in slashes : x <= y
                   rest == Split(Slice(p, i))
               IN IF i = 1 THEN rest ELSE <<SliceTo(p, i - 1)>> \o rest

RECURSIVE NormalizeSegs(_, _, _)

\* one segment of normalizeString: "." is dropped, ".." removes the segment
\* before it, or is kept when nothing is before it and allowAboveRoot
NormalizeSeg(seg, rest, res, allowAboveRoot) ==
  IF seg = DOT THEN NormalizeSegs(rest, res, allowAboveRoot)
  ELSE IF seg # DOTDOT
  THEN NormalizeSegs(rest, Append(res, seg), allowAboveRoot)
  ELSE IF Len(res) > 0 /\ res[Len(res)] # DOTDOT
  THEN NormalizeSegs(rest, SubSeq(res, 1, Len(res) - 1), allowAboveRoot)
  ELSE IF allowAboveRoot
  THEN NormalizeSegs(rest, Append(res, DOTDOT), allowAboveRoot)
  ELSE NormalizeSegs(rest, res, allowAboveRoot)

\* normalizeString of node's path module, over segments
NormalizeSegs(segs, res, allowAboveRoot) ==
  IF Len(segs) = 0 THEN res
  ELSE NormalizeSeg(Head(segs), Tail(segs), res, allowAboveRoot)

\* path.resolve(p), as segments
ResolveSegs(p) ==
  IF Len(p) > 0 /\ p[1] = "/" THEN NormalizeSegs(Split(p), <<>>, FALSE)
  ELSE NormalizeSegs(Cwd \o Split(p), <<>>, FALSE)

\* the path string of absolute segments
AbsPath(segs) == IF Len(segs) = 0 THEN SLASH ELSE SLASH \o Join(segs, SLASH)

\* the positions after the first of the separators of p that have a
\* character other than a separator somewhere after them
DirnameEnds(p) ==
  {i \in 2..Len(p) : p[i] = "/" /\ \E k \in (i + 1)..Len(p) : p[k] # "/"}

\* the result of path.dirname(p), ends being DirnameEnds(p)
DirnameAt(p, ends) ==
  IF ends = {} THEN (IF Len(p) > 0 /\ p[1] = "/" THEN SLASH ELSE DOT)
  ELSE IF p[1] = "/" /\ SetMax(ends) = 2 THEN SLASH \o SLASH
  ELSE SliceTo(p, SetMax(ends) - 1)

\* path.dirname(p)
PathDirname(p) == DirnameAt(p, DirnameEnds(p))

\* the string path.normalize gives for the normalised segments of p
NormalizedPath(p, body) ==
  IF body = <<>>
  THEN (IF p[1] = "/" THEN SLASH
        ELSE IF p[Len(p)] = "/" THEN DOT \o SLASH ELSE DOT)
  ELSE (IF p[1] = "/" THEN SLASH ELSE <<>>)
       \o body \o (IF p[Len(p)] = "/" THEN SLASH ELSE <<>>)

\* path.normalize(p)
PathNormalize(p) ==
  IF Len(p) = 0 THEN DOT
  ELSE NormalizedPath(p, Join(NormalizeSegs(Split(p), <<>>, p[1] # "/"),
                              SLASH))

\* path.join(dir, name)
PathJoin(dir, name) ==
  IF Len(dir) = 0 THEN PathNormalize(name)
  ELSE IF Len(name) = 0 THEN PathNormalize(dir)
  ELSE PathNormalize(dir \o SLASH \o name)

\* the length of the common prefix of two segment sequences
CommonPrefix(a, b) ==
  SetMax({n \in 0..Len(a) :
            n <= Len(b) /\ \A i \in 1..n : a[i] = b[i]})

\* from f up to the common prefix of length c, then down to t
RelativeVia(f, t, c) ==
  Join([i \in 1..(Len(f) - c) |-> DOTDOT] \o SubSeq(t, c + 1, Len(t)), SLASH)

RelativeSegs(f, t) == RelativeVia(f, t, CommonPrefix(f, t))

\* path.relative(from, to)
PathRelative(from, to) == RelativeSegs(ResolveSegs(from), ResolveSegs(to))

\* the parsed file, tagged with __path, if it exists
Parsed(hits, file) ==
  IF hits = {} THEN Undefined
  ELSE [t |-> "object", name |-> Str((CHOOSE m \in hits : TRUE).name),
        path |-> Str(file)]

\* fs.existsSync(file) and the parsed file
ReadManifest(files, file) ==
  Parsed({m \in files : m.file = AbsPath(ResolveSegs(file))}, file)

\* path.resolve(root, '..')
ParentOf(segs) == AbsPath(SubSeq(segs, 1, Len(segs) - 1))

RECURSIVE FinderNext(_, _)

FinderStep(files, root, data) ==
  IF data # Undefined THEN data
  ELSE FinderNext(files, ParentOf(ResolveSegs(root)))

\* findPackageJSON(root).next().value: the nearest package.json at or above
\* root; the search ends at the filesystem root
FinderNext(files, root) ==
  IF root = SLASH THEN Undefined
  ELSE FinderStep(files, root,
                  ReadManifest(files, PathJoin(root, PACKAGE_JSON)))

findPackageJSON(files, dirname) == FinderNext(files, dirname)

----------------------------------------------------------------------------
(* Plain objects used as maps                                              *)

K_toString == <<"t", "o", "S", "t", "r", "i", "n", "g">>
K_valueOf == <<"v", "a", "l", "u", "e", "O", "f">>

\* methods every object literal inherits from Object.prototype, by name
K_hasOwnProperty == <<"h", "a", "s", "O", "w", "n", "P", "r", "o", "p", "e", "r", "t", "y">>
K_isPrototypeOf == <<"i", "s", "P", "r", "o", "t", "o", "t", "y", "p", "e", "O", "f">>
K_propertyIsEnumerable == <<"p", "r", "o", "p", "e", "r", "t", "y", "I", "s", "E", "n", "u", "m", "e", "r", "a", "b", "l", "e">>
K_toLocaleString == <<"t", "o", "L", "o", "c", "a", "l", "e", "S", "t", "r", "i", "n", "g">>
K_defineGetter == <<"_", "_", "d", "e", "f", "i", "n", "e", "G", "e", "t", "t", "e", "r", "_", "_">>
K_defineSetter == <<"_", "_", "d", "e", "f", "i", "n", "e", "S", "e", "t", "t", "e", "r", "_", "_">>
K_lookupGetter == <<"_", "_", "l", "o", "o", "k", "u", "p", "G", "e", "t", "t", "e", "r", "_", "_">>
K_lookupSetter == <<"_", "_", "l", "o", "o", "k", "u", "p", "S", "e", "t", "t", "e", "r", "_", "_">>
K_constructor == <<"c", "o", "n", "s", "t", "r", "u", "c", "t", "o", "r">>
K_proto == <<"_", "_", "p", "r", "o", "t", "o", "_", "_">>
OBJECT == <<"O", "b", "j", "e", "c", "t">>
UNDEFINED == <<"u", "n", "d", "e", "f", "i", "n", "e", "d">>

PrototypeMethods ==
  {K_toString, K_valueOf, K_hasOwnProperty, K_isPrototypeOf,
   K_propertyIsEnumerable, K_toLocaleString, K_defineGetter, K_defineSetter,
   K_lookupGetter, K_lookupSetter}

\* {}
EmptyObject == [k \in {} |-> Undefined]

\* obj[key]: an own property; else an inherited one: a method of
\* Object.prototype, a function with the name of its key, the constructor
\* Object, or Object.prototype itself under __proto__; else undefined
ObjGet(obj, key) ==
  IF key \in DOMAIN obj THEN obj[key]
  ELSE IF key \in PrototypeMethods
  THEN [t |-> "function", name |-> Str(key), path |-> Undefined]
  ELSE IF key = K_constructor
  THEN [t |-> "function", name |-> Str(OBJECT), path |-> Undefined]
  ELSE IF key = K_proto
  THEN [t |-> "object", name |-> Undefined, path |-> Undefined]
  ELSE Undefined

\* obj[key] = value
ObjSet(obj, key, value) == (key :> value) @@ obj

\* property names Object.prototype gives every object literal
ObjectPrototypeKeys ==
  {"constructor", "toString", "toLocaleString", "valueOf", "hasOwnProperty",
   "isPrototypeOf", "propertyIsEnumerable", "__proto__", "__defineGetter__",
   "__defineSetter__", "__lookupGetter__", "__lookupSetter__"}

\* SUPPORTED_LANG[lang] is truthy
SUPPORTED_LANG(lang) ==
  lang \in {"js+test", "javasctipt+test"} \cup ObjectPrototypeKeys

----------------------------------------------------------------------------
(* The module reference remapper                                           *)

Threw(cache) == [threw |-> TRUE, value |-> <<>>, cache |-> cache]
Returned(value, cache) == [threw |-> FALSE, value |-> value, cache |-> cache]

\* the relative path alone
ExactResultBare(packageDirname) == packageDirname

\* return packageDirname + '/'
ExactResult(packageDirname) == packageDirname \o SLASH

\* return packageDirname + source.slice(packageJSON.name.length)
PrefixResult(packageDirname, src, name) ==
  packageDirname \o Slice(src, Len(name))

\* rel || '.'
OrDot(rel) == IF rel = <<>> THEN DOT ELSE rel

\* path.relative(dirname, path.dirname(packageJSON.__path)) || '.'
PackageDirname(dirname, packageJSON) ==
  OrDot(PathRelative(dirname, PathDirname(packageJSON.path.v)))

\* lines 148-150: the manifest of dirname is looked up unless cached
FillCache(cache, dirname, files) ==
  IF ObjGet(cache, dirname) = Undefined
  THEN ObjSet(cache, dirname, Or(findPackageJSON(files, dirname), Null))
  ELSE cache

\* packageJSON.name + '/' begins with the name, or with "undefined"
NameText(name) == IF name = Undefined THEN UNDEFINED ELSE name.v

\* lines 151-168, packageJSON being packageJSONCache[dirname];
\* path.dirname throws a TypeError when __path is undefined, and so does
\* packageJSON.name.length when name is undefined
Remap(src, dirname, packageJSON, cache) ==
  IF packageJSON \notin {Null, Undefined}
  THEN IF Str(src) = packageJSON.name
       THEN IF packageJSON.path = Undefined THEN Threw(cache)
            ELSE Returned(ExactResult(PackageDirname(dirname, packageJSON)),
                          cache)
       ELSE IF LitAt(src, 0, NameText(packageJSON.name) \o SLASH)
       THEN IF packageJSON.path = Undefined \/ packageJSON.name = Undefined
            THEN Threw(cache)
            ELSE Returned(PrefixResult(PackageDirname(dirname, packageJSON),
                                       src, NameText(packageJSON.name)),
                          cache)
       ELSE Returned(src, cache)
  ELSE Returned(src, cache)

RemapCached(src, dirname, cache) ==
  Remap(src, dirname, ObjGet(cache, dirname), cache)

ResolveIn(src, dirname, cache, files) ==
  RemapCached(src, dirname, FillCache(cache, dirname, files))

\* resolveModuleSource(source, filename) with the cache it reads and writes
resolveModuleSource(src, filename, cache, files) ==
  ResolveIn(src, PathDirname(filename), cache, files)

----------------------------------------------------------------------------
(* compile: scanning the document                                          *)

\* the title of the code block at position index of its parent's children
TitleOf(children, index) ==
  LET title0 == IF index > 1 /\ children[index - 1].type = "paragraph"
                THEN Str(children[index - 1].text)
                ELSE Null
  IN IF Truthy(title0) /\ title0.v[Len(title0.v)] = ":"
     THEN Str(SliceTo(title0.v, Len(title0.v) - 1))
     ELSE title0

RECURSIVE VisitCode(_, _)
\* mdastVisitNode(node, 'code', ...): the samples from position index on
VisitCode(children, index) ==
  IF index > Len(children) THEN <<>>
  ELSE LET node == children[index]
           rest == VisitCode(children, index + 1)
       IN IF node.type = "code" /\ SUPPORTED_LANG(node.lang)
          THEN <<[title |-> TitleOf(children, index), lang |-> node.lang,
                  value |-> node.value]>> \o rest
          ELSE rest

RECURSIVE CommentCount(_)
\* the number of comments written in a statement sequence
CommentCount(stmts) ==
  IF Len(stmts) = 0 THEN 0
  ELSE Len(Head(stmts).leadingComments) + CommentCount(Head(stmts).body)
       + Len(Head(stmts).trailingComments) + CommentCount(Tail(stmts))

\* the comment objects of the texts values, n comments preceding them
Comments(values, n) == [i \in 1..Len(values) |-> Comment(values[i], n + i)]

RECURSIVE Numbered(_, _)
\* A sample is written as statements that carry the texts of the comments
\* around them: trailingComments are those that follow the statement, up to
\* the next statement or the end of the block; leadingComments are those
\* before the first statement of a block.  The lexer makes one comment
\* object of each; n comments precede the statement.
NumberedStatement(st, n) ==
  [st EXCEPT
     !.leadingComments = Comments(@, n),
     !.body = Numbered(@, n + Len(st.leadingComments)),
     !.trailingComments =
        Comments(@, n + Len(st.leadingComments) + CommentCount(st.body))]

Numbered(stmts, n) ==
  IF Len(stmts) = 0 THEN <<>>
  ELSE <<NumberedStatement(Head(stmts), n)>>
       \o Numbered(Tail(stmts), n + CommentCount(<<Head(stmts)>>))

\* the comments that follow a body statement follow its labelled
\* statement, if or loop as well; the parser attaches them to the
\* outermost node that ends there
Outermost(st) ==
  IF HasBodyStatement(st)
  THEN [st EXCEPT
          !.trailingComments = st.body[1].trailingComments \o @,
          !.body = <<[st.body[1] EXCEPT !.trailingComments = <<>>]>>]
  ELSE st

\* the comments between two statements of a list are the trailing comments
\* of the first and the leading comments of the second
Linked(stmts) ==
  [i \in 1..Len(stmts) |->
     IF i = 1 THEN stmts[1]
     ELSE [stmts[i] EXCEPT
             !.leadingComments = stmts[i - 1].trailingComments]]

RECURSIVE Attached(_)
\* the parser's comment attachment over a statement sequence
Attached(stmts) ==
  Linked([i \in 1..Len(stmts) |->
            Outermost([stmts[i] EXCEPT !.body = Attached(@)])])

\* a parse that accepts every sample
BabylonParseLenient(value) ==
  [threw |-> FALSE, body |-> Attached(Numbered(value.body, 0))]

\* Babylon.parse of the wrapped sample: the statements of the body of the
\* synthetic function with their comments attached, or a SyntaxError
BabylonParse(value) ==
  [threw |-> value.malformed, body |-> Attached(Numbered(value.body, 0))]

WORKS == <<"w", "o", "r", "k", "s">>
SUITE == <<"S", "u", "i", "t", "e">>
POLYFILL == <<"/", "n", "/", "b">>
RUNTIME == <<"/", "t", "/", "r">>
ASSERT == <<"a", "s", "s", "e", "r", "t">>

\* stmt`it("${title}", ${fn});`
ItStatement(title, fn) ==
  ExpressionStatement(
    CallExpression(Identifier("it"), <<stringLiteral(title), fn>>), <<>>)

\* stmt`describe("${name}", ${fn});`
DescribeStatement(name, fn) ==
  ExpressionStatement(
    CallExpression(Identifier("describe"), <<stringLiteral(name), fn>>), <<>>)

\* the three imports every program starts with
Preamble ==
  <<ImportDeclaration(POLYFILL, <<>>), ImportDeclaration(RUNTIME, <<>>),
    ImportDeclaration(ASSERT, <<>>)>>

\* the sample imports placed after the suite
AssembleImportsLast(imports, cases, opts) ==
  Preamble
  \o <<DescribeStatement(Or(opts.name, Or(opts.filename, Str(SUITE))).v,
                         caseExpression(cases, FALSE))>>
  \o imports

\* program.concat(preamble, importList, describe)
AssembleProgram(imports, cases, opts) ==
  Preamble
  \o imports
  \o <<DescribeStatement(Or(opts.name, Or(opts.filename, Str(SUITE))).v,
                         caseExpression(cases, FALSE))>>

\* the filename babel hands to the hook: options.filename, or its default
BabelFilename(opts) ==
  IF opts.filename = Undefined THEN UNKNOWN ELSE opts.filename.v

----------------------------------------------------------------------------
(* compile, step by step                                                   *)

\* lines 44-62: the document is scanned for samples
Scan ==
  /\ pc = "scan"
  /\ testCaseList' = VisitCode(source, 1)
  /\ cursor' = 1
  /\ pc' = "forEach"
  /\ UNCHANGED <<source, options, fs, importList, caseList, program,
                 packageJSONCache, output, tree, passes>>

\* lines 77-119: the traversal's imports are hoisted, its body is made a case
AddCase(testCase, result) ==
  /\ importList' = importList \o result.imports
  /\ caseList' = Append(caseList,
                        ItStatement(Or(testCase.title, Str(WORKS)).v,
                                    caseExpression(result.body, TRUE)))

\* lines 68-120: one sample is parsed, traversed and made a case; a sample
\* that does not parse ends compile with the parser's exception
ForEachTestCase ==
  /\ pc = "forEach"
  /\ cursor <= Len(testCaseList)
  /\ IF BabylonParse(testCaseList[cursor].value).threw
     THEN /\ pc' = "threw"
          /\ UNCHANGED <<importList, caseList, cursor>>
     ELSE /\ AddCase(testCaseList[cursor],
                     traverse(BabylonParse(testCaseList[cursor].value).body))
          /\ cursor' = cursor + 1
          /\ pc' = pc
  /\ UNCHANGED <<source, options, fs, testCaseList, program,
                 packageJSONCache, output, tree, passes>>

\* lines 123-142: the program is assembled and the cache created
Assemble ==
  /\ pc = "forEach"
  /\ cursor > Len(testCaseList)
  /\ program' = AssembleProgram(importList, caseList, options)
  /\ packageJSONCache' = EmptyObject
  /\ cursor' = 1
  /\ pc' = "transform"
  /\ UNCHANGED <<source, options, fs, testCaseList, importList, caseList,
                 output, tree, passes>>

\* the specifier is replaced by what the hook returned, r
Resolved(r) ==
  /\ packageJSONCache' = r.cache
  /\ IF r.threw
     THEN /\ pc' = "threw"
          /\ UNCHANGED <<program, cursor>>
     ELSE /\ program' = [program EXCEPT ![cursor].source = r.value]
          /\ cursor' = cursor + 1
          /\ pc' = pc

\* lines 143-170: the transformation maps the specifier of the next import
\* declaration through resolveModuleSource; an exception of the hook ends
\* compile
ResolveImport ==
  /\ pc = "transform"
  /\ cursor <= Len(program)
  /\ program[cursor].type = "ImportDeclaration"
  /\ Resolved(resolveModuleSource(program[cursor].source,
                                  BabelFilename(options), packageJSONCache, fs))
  /\ UNCHANGED <<source, options, fs, testCaseList, importList, caseList,
                 output, tree, passes>>

\* line 172: the transformed program is printed and returned
Generate ==
  /\ pc = "transform"
  /\ cursor > Len(program) \/ program[cursor].type # "ImportDeclaration"
  /\ output' = [t |-> "code", program |-> program]
  /\ pc' = "done"
  /\ UNCHANGED <<source, options, fs, testCaseList, importList, caseList,
                 program, packageJSONCache, cursor, tree, passes>>

Next == Scan \/ ForEachTestCase \/ Assemble \/ ResolveImport \/ Generate

\* the traversal of lines 77-112 is run once more over a tree
Pass ==
  /\ pc = "idle"
  /\ passes < MaxPasses
  /\ tree' = [body |-> traverse(tree.body).body,
              imports |-> tree.imports \o traverse(tree.body).imports]
  /\ passes' = passes + 1
  /\ UNCHANGED <<source, options, fs, pc, testCaseList, importList, caseList,
                 program, packageJSONCache, cursor, output>>

NextRevisit == Pass

----------------------------------------------------------------------------
(* Inputs                                                                  *)

\* all sequences over S of length at most n
SeqsUpTo(S, n) == UNION {[1..k -> S] : k \in 0..n}

X == Identifier("x")
RISKY == CallExpression(Identifier("risky"), <<>>)

C_repr == <<" ", "=", ">", " ", "1">>
C_err == <<" ", "T", "y", "p", "e", "E", "r", "r", "o", "r", ":", " ", "b">>
C_note == <<" ", "n">>

S_m == <<"m">>
S_foo == <<"f", "o", "o">>
S_fo == <<"f", "o">>
S_foo_sub == <<"f", "o", "o", "/", "s">>
S_foob == <<"f", "o", "o", "b">>
S_toString_sub == K_toString \o <<"/", "s">>

Sample(body) == [malformed |-> FALSE, body |-> body]
Malformed == [malformed |-> TRUE, body |-> <<>>]

Paragraph(text) ==
  [type |-> "paragraph", text |-> text, lang |-> "null", value |-> Sample(<<>>)]
Code(lang, value) ==
  [type |-> "code", text |-> <<>>, lang |-> lang, value |-> value]

E_repr == ExpressionStatement(X, <<C_repr>>)
E_repr2 == ExpressionStatement(X, <<C_repr, C_note>>)
E_err == ExpressionStatement(RISKY, <<C_err>>)
E_plain == ExpressionStatement(X, <<>>)
E_note == ExpressionStatement(RISKY, <<C_note>>)
V_repr == VariableDeclaration(X, <<C_repr>>)
I_m == ImportDeclaration(S_m, <<>>)
I_foo == ImportDeclaration(S_foo_sub, <<C_repr>>)
L_m == LabeledStatement(I_m)
IF_m == IfStatement(I_m)
W_L_m == WhileStatement(LabeledStatement(I_m))

\* the statements with the comments head written before the first of them
WithHead(body, head) ==
  IF Len(body) = 0 THEN body
  ELSE [body EXCEPT ![1].leadingComments = head]

\* the samples of the documents of Spec
DocSamples ==
  {Sample(<<E_repr>>),
   Sample(<<I_m, E_err, V_repr, E_repr2>>),
   Sample(<<BlockStatement(<<I_foo, I_m, E_plain>>), IF_m>>),
   Malformed}

\* the blocks of the documents of Spec
DocBlocks ==
  {Paragraph(<<"T", ":">>)}
  \cup {Code("js+test", v) : v \in DocSamples}
  \cup {Code(lang, Sample(<<E_repr>>)) :
          lang \in {"javasctipt+test", "js", "toString"}}

\* the package.json of package foo in /p
FooAtP == [file |-> <<"/", "p", "/">> \o PACKAGE_JSON, name |-> S_foo]

F_ppr == <<"/", "p", "/", "p", "/", "r">>

Idle == [body |-> <<>>, imports |-> <<>>]

\* the state compile starts in, for a document, options and files
Start(doc, opts, files) ==
  /\ source = doc
  /\ options = opts
  /\ fs = files
  /\ pc = "scan"
  /\ testCaseList = <<>>
  /\ importList = <<>>
  /\ caseList = <<>>
  /\ program = <<>>
  /\ packageJSONCache = EmptyObject
  /\ cursor = 1
  /\ output = Undefined
  /\ tree = Idle
  /\ passes = 0

\* documents of up to MaxBlocks blocks
Init ==
  \E n \in 0..MaxBlocks :
   \E doc \in [1..n -> DocBlocks] :
    \E name \in {Undefined, Str(<<"N">>)} :
      \E filename \in {Undefined, Str(F_ppr)} :
        Start(doc, [name |-> name, filename |-> filename], {FooAtP})

Spec == Init /\ [][Next]_vars

\* the statements of the samples of SpecRewrite
RewriteStatements ==
  {E_repr, E_err, E_plain, V_repr, I_m, I_foo,
   BlockStatement(<<E_repr, I_m>>), BlockStatement(<<I_foo, E_plain>>),
   L_m, W_L_m}

\* the comments written before the first statement of a sample
RewriteHeads == {<<>>, <<C_repr>>}

\* one sample of up to MaxStmts statements, under comments or not, or a
\* sample that does not parse
InitRewrite ==
  \/ \E n \in 0..MaxStmts :
       \E b \in [1..n -> RewriteStatements], head \in RewriteHeads :
         Start(<<Code("js+test", Sample(WithHead(b, head)))>>,
               [name |-> Undefined, filename |-> Str(F_ppr)], {FooAtP})
  \/ Start(<<Code("js+test", Malformed)>>,
           [name |-> Undefined, filename |-> Str(F_ppr)], {FooAtP})

SpecRewrite == InitRewrite /\ [][Next]_vars

\* the beginnings of first comments: markers and near-markers
Heads ==
  {<<>>,
   <<"=", ">", " ">>, <<"=", ">">>, <<"=", ">", "\t">>, <<"=", ">", "\n">>,
   <<"U+00A0", "=", ">", " ">>,
   <<"=", " ", ">", " ">>,
   <<"x">>,
   <<"E", "r", "r", "o", "r", ":", " ">>,
   <<"T", "y", "p", "e", "E", "r", "r", "o", "r", ":", " ">>,
   <<"E", "r", "r", "o", "r", ":">>,
   <<"E", "r", "r", "o", "r", ":", "\t">>,
   <<"E", "r", "r", "o", "r", "s", ":", " ">>,
   <<"T", "1", "E", "r", "r", "o", "r", ":", " ">>,
   <<"e", "r", "r", "o", "r", ":", " ">>,
   <<"E", "r", "r", "o", "r", " ", ":", " ">>}

Tails == {<<>>, <<"\"", "h", "\"">>}

RestComments == {<<>>, <<" ", "m">>, <<"=", ">", " ">>}

FirstComments ==
  {ws \o head \o tail :
     ws \in SeqsUpTo({" ", "\t", "\n"}, MaxWs), head \in Heads, tail \in Tails}

CommentLists ==
  {<<>>} \cup {<<first>> \o rest :
                 first \in FirstComments,
                 rest \in SeqsUpTo(RestComments, MaxRest)}

AnnotationStatements ==
  {ExpressionStatement(RISKY, tc) : tc \in CommentLists}
  \cup {VariableDeclaration(X, tc) : tc \in CommentLists}
  \cup {ImportDeclaration(S_m, tc) : tc \in CommentLists}

\* the comments written before an import declaration that starts a sample
HeadComments == {<<C_note>>, <<C_repr>>, <<C_err>>}

\* the statements written after such an import declaration
FollowingStatements ==
  {E_plain, E_repr, E_repr2, E_err, E_note, V_repr,
   VariableDeclaration(X, <<>>), I_m}

\* one sample of one statement with its trailing comments, or of an import
\* declaration under comments and one statement after it
InitAnnotation ==
  \E value \in {Sample(<<st>>) : st \in AnnotationStatements}
                \cup {Sample(WithHead(<<I_m, st>>, head)) :
                        st \in FollowingStatements, head \in HeadComments}
                \cup {Malformed} :
    Start(<<Code("js+test", value)>>,
          [name |-> Undefined, filename |-> Undefined], {FooAtP})

SpecAnnotation == InitAnnotation /\ [][Next]_vars

RECURSIVE DirAt(_)
\* the directory n levels below the root: /, /p, /p/p, ...
DirAt(n) == IF n = 0 THEN SLASH
            ELSE IF n = 1 THEN <<"/", "p">>
            ELSE DirAt(n - 1) \o <<"/", "p">>

ManifestAt(n, name) ==
  [file |-> PathJoin(DirAt(n), PACKAGE_JSON), name |-> name]

\* up to two package.json files, in directories below the root
FileSystems ==
  {files \in SUBSET {ManifestAt(n, name) :
                       n \in 1..MaxDepth, name \in {S_foo, S_fo}} :
     /\ Cardinality(files) <= 2
     /\ \A a, b \in files : a.file = b.file => a = b}

\* the file names compile is given: absolute ones, and relative ones
Filenames ==
  {Str(PathJoin(DirAt(n), <<"r">>)) : n \in 0..MaxDepth}
  \cup {Undefined, Str(<<"p", "/", "r">>), Str(K_toString \o <<"/", "r">>),
        Str(<<"/", "p", "/", "p", "/", ".", ".", "/", "r">>),
        Str(<<"/", "/", "r">>)}

Specifiers == {S_m, S_foo, S_fo, S_foo_sub, S_foob, K_toString, S_toString_sub}

\* one sample of one import declaration, any files, any file name
InitResolve ==
  \E src \in Specifiers :
    \E files \in FileSystems :
      \E filename \in Filenames :
        \E value \in {Sample(<<ImportDeclaration(src, <<>>)>>)} :
          Start(<<Code("js+test", value)>>,
                [name |-> Undefined, filename |-> filename], files)

SpecResolve == InitResolve /\ [][Next]_vars

\* a parsed sample body to be traversed more than once
InitRevisit ==
  \E n \in 0..MaxStmts :
   \E b \in [1..n -> RewriteStatements], head \in RewriteHeads :
    /\ source = <<>>
    /\ options = [name |-> Undefined, filename |-> Undefined]
    /\ fs = {}
    /\ pc = "idle"
    /\ testCaseList = <<>>
    /\ importList = <<>>
    /\ caseList = <<>>
    /\ program = <<>>
    /\ packageJSONCache = EmptyObject
    /\ cursor = 1
    /\ output = Undefined
    /\ tree = [body |-> BabylonParse(Sample(WithHead(b, head))).body,
               imports |-> <<>>]
    /\ passes = 0

SpecRevisit == InitRevisit /\ [][NextRevisit]_vars

----------------------------------------------------------------------------
(* Reading the state                                                       *)

\* the statement sequence of the i-th generated case
CaseBody(i) == caseList[i].expression.arguments[2].body

\* the body of the only sample of a one-block document
InputBody == source[1].value.body

\* the last statement of the only sample
InputStatement == InputBody[Len(InputBody)]

\* the document is one sample of one statement, after import declarations
\* if any, and its case was generated
OneStatementCase ==
  /\ Len(source) = 1
  /\ ~source[1].value.malformed
  /\ Len(InputBody) >= 1
  /\ \A i \in 1..(Len(InputBody) - 1) : InputBody[i].type = "ImportDeclaration"
  /\ Len(caseList) = 1

IsHelperCall(st, property) ==
  /\ st.type = "ExpressionStatement"
  /\ \/ /\ st.expression.type = "CallExpression"
        /\ st.expression.callee = RuntimeMember(property)
     \/ /\ st.expression.type = "AwaitExpression"
        /\ st.expression.argument.callee = RuntimeMember(property)

\* what became of the only statement: "repr", "error" or "false"
Observed ==
  IF Len(CaseBody(1)) = 0 THEN "false"
  ELSE IF IsHelperCall(CaseBody(1)[1], "assertRepr") THEN "repr"
  ELSE IF IsHelperCall(CaseBody(1)[1], "assertError") THEN "error"
  ELSE "false"

RECURSIVE StripSpace(_)
\* a string without its leading white space
StripSpace(s) ==
  IF Len(s) > 0 /\ IsSpace(s[1]) THEN StripSpace(Tail(s)) ELSE s

RECURSIVE LetterRun(_)
\* the number of letters a string starts with
LetterRun(s) ==
  IF Len(s) > 0 /\ IsLetter(s[1]) THEN 1 + LetterRun(Tail(s)) ELSE 0

\* the name of an Error annotation: letters ending in Error
NameOf(t) == SubSeq(t, 1, LetterRun(t))

EndsInError(name) ==
  /\ Len(name) >= 5
  /\ SubSeq(name, Len(name) - 4, Len(name)) = <<"E", "r", "r", "o", "r">>

\* a comment that reads, after white space, "=> " (the code's expression)
ReprComment(c) == LitAt(StripSpace(c), 0, <<"=", ">", " ">>)

\* a comment that reads, after white space, "<letters>Error: "
ErrorComment(c) ==
  /\ EndsInError(NameOf(StripSpace(c)))
  /\ LitAt(StripSpace(c), LetterRun(StripSpace(c)), <<":", " ">>)

\* the class of a statement as written, by the first of the comments that
\* follow it
ClassOf(st) ==
  IF st.type # "ExpressionStatement" \/ Len(st.trailingComments) = 0
  THEN "false"
  ELSE IF ReprComment(st.trailingComments[1]) THEN "repr"
  ELSE IF ErrorComment(st.trailingComments[1]) THEN "error"
  ELSE "false"

RECURSIVE Continuation(_, _)
\* the comments from the i-th on, each after a newline and without its
\* first character
Continuation(tc, i) ==
  IF i > Len(tc) THEN <<>>
  ELSE <<"\n">> \o SubSeq(tc[i], 2, Len(tc[i])) \o Continuation(tc, i + 1)

\* the expected text of a Repr annotation
ReprText(tc) == SubSeq(StripSpace(tc[1]), 4, Len(StripSpace(tc[1]))) \o Continuation(tc, 2)

\* the expected message of an Error annotation
ErrorMessage(tc) ==
  SubSeq(StripSpace(tc[1]), LetterRun(StripSpace(tc[1])) + 3,
         Len(StripSpace(tc[1]))) \o Continuation(tc, 2)

\* an expression the rewriter builds: a helper call, its await or a thunk
IsHelperExpression(e) ==
  \/ e.type = "CallExpression" /\ e.callee.type = "MemberExpression"
  \/ e.type = "AwaitExpression"
  \/ e.type = "ArrowFunctionExpression"

\* the expression a helper-call statement checks
Wrapped(st) ==
  IF st.expression.type = "CallExpression"
  THEN st.expression.arguments[1]
  ELSE st.expression.argument.arguments[1].body

IsAnyHelperCall(st) ==
  IsHelperCall(st, "assertRepr") \/ IsHelperCall(st, "assertError")

RECURSIVE Corresponds(_, _)
RECURSIVE BodyCorresponds(_, _)
RECURSIVE StatementCorresponds(_, _)
RECURSIVE HelperCalls(_)
RECURSIVE Annotated(_)
RECURSIVE ImportsOf(_)
RECURSIVE NoDoubleWrap(_)

\* a statement without the comments attached to it
NoComments(st) ==
  [st EXCEPT !.leadingComments = <<>>, !.trailingComments = <<>>]

\* out is what the body statement in of a labelled statement, an if or a
\* loop leaves: what corresponds to it, or an empty block where an import
\* declaration was
BodyCorresponds(in, out) ==
  \/ Corresponds(in, out)
  \/ /\ Corresponds(in, <<>>)
     /\ Len(out) = 1
     /\ out[1].type = "BlockStatement"
     /\ Len(out[1].body) = 0

\* b is what a, as written, should become: one helper call on a's
\* expression if a is annotated, a statement of its type holding what
\* corresponds to its statements if a holds statements, else a itself
\* (comments apart)
StatementCorresponds(a, b) ==
  IF ClassOf(a) = "repr"
  THEN IsHelperCall(b, "assertRepr") /\ Wrapped(b) = a.expression
  ELSE IF ClassOf(a) = "error"
  THEN IsHelperCall(b, "assertError") /\ Wrapped(b) = a.expression
  ELSE IF a.type = "BlockStatement"
  THEN b.type = "BlockStatement" /\ Corresponds(a.body, b.body)
  ELSE IF HasBodyStatement(a)
  THEN b.type = a.type /\ BodyCorresponds(a.body, b.body)
  ELSE NoComments(b) = NoComments(a)

\* out is what the statements in leave: the imports gone, every other
\* statement at its place, in order
Corresponds(in, out) ==
  IF Len(in) = 0 THEN Len(out) = 0
  ELSE IF Head(in).type = "ImportDeclaration" THEN Corresponds(Tail(in), out)
  ELSE /\ Len(out) > 0
       /\ StatementCorresponds(Head(in), Head(out))
       /\ Corresponds(Tail(in), Tail(out))

\* the number of helper-call statements in a statement sequence
HelperCalls(stmts) ==
  IF Len(stmts) = 0 THEN 0
  ELSE (IF IsAnyHelperCall(Head(stmts)) THEN 1 ELSE 0)
       + HelperCalls(Head(stmts).body) + HelperCalls(Tail(stmts))

\* the number of annotated statements in a statement sequence
Annotated(stmts) ==
  IF Len(stmts) = 0 THEN 0
  ELSE (IF ClassOf(Head(stmts)) # "false" THEN 1 ELSE 0)
       + Annotated(Head(stmts).body) + Annotated(Tail(stmts))

\* the import declarations in a statement sequence, in source order
ImportsOf(stmts) ==
  IF Len(stmts) = 0 THEN <<>>
  ELSE (IF Head(stmts).type = "ImportDeclaration" THEN <<Head(stmts)>>
        ELSE ImportsOf(Head(stmts).body))
       \o ImportsOf(Tail(stmts))

\* no helper call checks an expression the rewriter built
NoDoubleWrap(stmts) ==
  \A i \in 1..Len(stmts) :
    /\ IsAnyHelperCall(stmts[i]) => ~IsHelperExpression(Wrapped(stmts[i]))
    /\ NoDoubleWrap(stmts[i].body)

RECURSIVE SeenKept(_, _)
\* out holds, at its place and as it is, every statement of in that carries
\* the marker
SeenKept(in, out) ==
  /\ Len(out) = Len(in)
  /\ \A i \in 1..Len(in) :
       /\ in[i].TESTDOC_SEEN => out[i] = in[i]
       /\ ~in[i].TESTDOC_SEEN /\ in[i].type = out[i].type
            => SeenKept(in[i].body, out[i].body)

\* again is what a further traversal makes of the statements stmts: it
\* wraps no helper call, keeps every replacement and finds no import
RevisitIsNoOp(stmts, again) ==
  /\ NoDoubleWrap(again.body)
  /\ SeenKept(stmts, again.body)
  /\ again.imports = <<>>

RECURSIVE AllImports(_)
\* the import declarations of the samples as parsed, sample after sample
AllImports(samples) ==
  IF Len(samples) = 0 THEN <<>>
  ELSE ImportsOf(BabylonParse(Head(samples).value).body)
       \o AllImports(Tail(samples))

\* the language tags the code lists
AllowList == {"js+test", "javasctipt+test"}

IsAllowed(block) == block.type = "code" /\ block.lang \in AllowList

\* the code blocks of the document whose tag is in the allow-list
AllowedBlocks == SelectSeq(source, IsAllowed)

IsCall(st, name) ==
  /\ st.type = "ExpressionStatement"
  /\ st.expression.type = "CallExpression"
  /\ st.expression.callee = Identifier(name)

\* a statement without its import specifier and its comments
Masked(st) == [NoComments(st) EXCEPT !.source = <<>>]

\* the statements without their comments
Uncommented(stmts) == [i \in 1..Len(stmts) |-> NoComments(stmts[i])]

\* the program is the preamble, the import declarations imports and the
\* one describe statement around the cases, and no case holds an import
HoistedAre(imports) ==
  /\ \A i \in 1..Len(caseList) : ImportsOf(CaseBody(i)) = <<>>
  /\ Len(program) = 3 + Len(imports) + 1
  /\ \A j \in 1..3 : Masked(program[j]) = Masked(Preamble[j])
  /\ \A k \in 1..Len(imports) : Masked(program[3 + k]) = Masked(imports[k])
  /\ IsCall(program[Len(program)], "describe")
  /\ program[Len(program)].expression.arguments[2].body = caseList
  /\ (pc = "transform" /\ cursor = 1) =>
       Uncommented(SubSeq(program, 1, Len(program) - 1))
         = Uncommented(Preamble \o imports)

\* the samples that do not parse, by position
MalformedSamples ==
  {i \in 1..Len(testCaseList) : testCaseList[i].value.malformed}

SetMin(S) == CHOOSE x \in S : \A y \in S : x <= y

\* the position in the program of the import declaration of the one sample
SampleImport == Len(Preamble) + 1

\* the specifier the sample wrote
Written == testCaseList[1].value.body[1].source

\* the specifier was mapped
Mapped == pc \in {"transform", "done"} /\ cursor > SampleImport

\* the importing directory, as the babel option filename gives it
ImportingDirectory == PathDirname(BabelFilename(options))

\* the segments of the absolute importing directory
ImportingSegs == ResolveSegs(ImportingDirectory)

\* the manifests at or above the importing directory, by depth
ManifestDepths ==
  {n \in 1..Len(ImportingSegs) :
     \E m \in fs :
       m.file = AbsPath(SubSeq(ImportingSegs, 1, n)) \o SLASH \o PACKAGE_JSON}

\* a manifest lies at or above the importing directory
ManifestIsFound == ManifestDepths # {}

\* the lookup of the importing directory gave a manifest
ManifestIsLookedUp ==
  /\ ManifestIsFound
  /\ ObjGet(packageJSONCache, ImportingDirectory).t = "object"
  /\ ObjGet(packageJSONCache, ImportingDirectory).path # Undefined

\* the manifest found for the importing directory: the nearest one
NearestManifest ==
  CHOOSE m \in fs :
    m.file = AbsPath(SubSeq(ImportingSegs, 1, SetMax(ManifestDepths)))
               \o SLASH \o PACKAGE_JSON

\* the relative path from the importing directory up to the manifest's
DirectoriesUp == Len(ImportingSegs) - SetMax(ManifestDepths)

RelativeToManifest ==
  IF DirectoriesUp = 0 THEN DOT
  ELSE Join([i \in 1..DirectoriesUp |-> DOTDOT], SLASH)

\* the document is one sample and its case was generated
OneSampleCase ==
  /\ Len(source) = 1
  /\ ~source[1].value.malformed
  /\ Len(caseList) = 1

----------------------------------------------------------------------------
(* Claims                                                                  *)

\* C7: the statement of a sample is rewritten as a Repr assertion only if
\* it is an expression statement and the first of the comments that trail
\* it is white space, then "=>" and a space character; as an Error
\* assertion only if that comment is white space, letters ending in Error,
\* a colon and a space character; it is so rewritten whenever it has such a
\* comment, and otherwise it is not rewritten: unless it is an import
\* declaration it stays in the body as it is.  (The markers are those of
\* the code and of the annotation grammar: a space character after "=>"
\* and after the colon.)
C7_Classification ==
  OneStatementCase =>
    /\ Observed = ClassOf(InputStatement)
    /\ (ClassOf(InputStatement) = "false"
          /\ InputStatement.type # "ImportDeclaration")
       => /\ Len(CaseBody(1)) = 1
          /\ NoComments(CaseBody(1)[1]) = NoComments(InputStatement)

\* C2: a statement classified as Repr is replaced by exactly one call
\* assertRepr(expr, text): expr is the original expression, occurring once,
\* and text is the first of the statement's trailing comments without
\* leading white space and "=> ", then each later one of its trailing
\* comments without its first character, joined by newline.
C2_ReprRewrite ==
  (OneStatementCase /\ ClassOf(InputStatement) = "repr") =>
    /\ Len(CaseBody(1)) = 1
    /\ CaseBody(1)[1].type = "ExpressionStatement"
    /\ CaseBody(1)[1].expression.type = "CallExpression"
    /\ CaseBody(1)[1].expression.callee = RuntimeMember("assertRepr")
    /\ CaseBody(1)[1].expression.arguments =
         <<InputStatement.expression,
           stringLiteral(ReprText(InputStatement.trailingComments))>>

\* C3: a statement classified as Error is replaced by a call
\* assertError(thunk, name, message): thunk is an asynchronous function
\* without parameters whose body is the original expression, name is the
\* identifier before ": " in the first of the statement's trailing
\* comments, message is the rest of that comment, then each later one of
\* its trailing comments without its first character, joined by newline.
C3_ErrorRewrite ==
  (OneStatementCase /\ ClassOf(InputStatement) = "error") =>
    /\ Len(CaseBody(1)) = 1
    /\ CaseBody(1)[1].type = "ExpressionStatement"
    /\ CaseBody(1)[1].expression.type = "AwaitExpression"
    /\ CaseBody(1)[1].expression.argument.type = "CallExpression"
    /\ CaseBody(1)[1].expression.argument.callee = RuntimeMember("assertError")
    /\ CaseBody(1)[1].expression.argument.arguments =
         <<[type |-> "ArrowFunctionExpression", async |-> TRUE,
            params |-> <<>>, body |-> InputStatement.expression],
           stringLiteral(NameOf(StripSpace(InputStatement.trailingComments[1]))),
           stringLiteral(ErrorMessage(InputStatement.trailingComments))>>

\* C9: the body of the generated case is the sample's statements with each
\* annotated statement replaced at its place by exactly one helper call,
\* the imports gone and every other statement unchanged in order (comments
\* apart); a sample without annotated statements yields a body without
\* helper calls.
C9_BodyPreserved ==
  OneSampleCase =>
    /\ Corresponds(InputBody, CaseBody(1))
    /\ HelperCalls(CaseBody(1)) = Annotated(InputBody)

\* javasctipt+test), in document order; other blocks contribute nothing.
C1_OneCasePerAllowedBlock ==
  pc = "done" =>
    /\ Len(SelectSeq(output.program, LAMBDA st : IsCall(st, "describe"))) = 1
    /\ Len(caseList) = Len(AllowedBlocks)
    /\ \A i \in 1..Len(caseList) :
         /\ IsCall(caseList[i], "it")
         /\ i <= Len(AllowedBlocks)
         /\ Corresponds(AllowedBlocks[i].value.body, CaseBody(i))

\* C4: once the program is assembled no case body holds an import
\* declaration, and the program is the three preamble imports, then every
\* import declaration of every sample, each once, sample after sample and
\* in source order within a sample, then the one describe statement.  (An
\* import declaration is told by its specifier; the comments around it may
\* have moved when a neighbouring import was removed.)
C4_ImportsHoisted ==
  pc \in {"transform", "done"} => HoistedAre(AllImports(testCaseList))

\* two samples with imports, some of them nested in a block and under an
\* if, and one specifier imported by both, were compiled
C4_Witness ==
  /\ pc = "done"
  /\ Len(testCaseList) = 2
  /\ Len(ImportsOf(testCaseList[1].value.body)) >= 1
  /\ Len(ImportsOf(testCaseList[2].value.body)) >= 2
  /\ testCaseList[2].value.body[1].type = "BlockStatement"
  /\ testCaseList[2].value.body[2].type = "IfStatement"
  /\ \E j, k \in 4..(Len(program) - 1) :
       j < k /\ AllImports(testCaseList)[j - 3] = AllImports(testCaseList)[k - 3]

\* C8: if a sample does not parse, compile ends with the exception when it
\* reaches the first such sample: no later sample is parsed or rewritten,
\* no program is assembled and nothing is returned.
C8_ParseFailureFatal ==
  (pc # "scan" /\ MalformedSamples # {}) =>
    /\ pc \in {"forEach", "threw"}
    /\ output = Undefined
    /\ program = <<>>
    /\ cursor <= SetMin(MalformedSamples)
    /\ Len(caseList) = cursor - 1
    /\ pc = "threw" => (cursor = SetMin(MalformedSamples) /\ ~ENABLED Next)

\* compile ended at a malformed sample that follows a rewritten sample and
\* precedes another sample
C8_Witness ==
  /\ pc = "threw"
  /\ Len(testCaseList) = 3
  /\ cursor = 2
  /\ Len(caseList) = 1
  /\ HelperCalls(CaseBody(1)) >= 1
  /\ ~testCaseList[3].value.malformed

\* C5 as stated: when a manifest is found for the importing directory and
\* the specifier equals its package name, the mapped specifier is exactly
\* the relative path from the importing directory to the manifest's
\* directory ("..", or "." when the directories are the same).
C5_AsStated ==
  (Mapped /\ ManifestIsLookedUp /\ Written = NearestManifest.name) =>
    program[SampleImport].source = RelativeToManifest

\* C5: when the lookup of the importing directory gives a manifest and the
\* specifier equals its package name, the mapped specifier is the relative
\* path from the importing directory to the manifest's directory followed
\* by a slash ("../", or "./" when the directories are the same).
C5_TrailingSlash ==
  (Mapped /\ ManifestIsLookedUp /\ Written = NearestManifest.name) =>
    program[SampleImport].source = RelativeToManifest \o SLASH

\* the package name was imported from two directories below its manifest
C5_Witness ==
  /\ pc = "done"
  /\ ManifestIsLookedUp
  /\ Written = NearestManifest.name
  /\ DirectoriesUp = 2
  /\ output.program[SampleImport].source = DOTDOT \o SLASH \o DOTDOT \o SLASH

\* the package name was imported from the directory of its manifest
C5_WitnessSame ==
  /\ pc = "done"
  /\ ManifestIsLookedUp
  /\ Written = NearestManifest.name
  /\ DirectoriesUp = 0
  /\ output.program[SampleImport].source = DOT \o SLASH

\* C6: a specifier that begins with the package name and a slash is mapped
\* to the relative path to the manifest's directory followed by the
\* remainder; any other specifier that is not the package name, and any
\* specifier when no manifest is found, is mapped to itself, and the
\* mapping raises no error.
C6_PrefixAndPassThrough ==
  (pc \in {"transform", "done", "threw"} /\ cursor >= SampleImport) =>
    /\ pc # "threw"
    /\ Mapped =>
         IF ManifestIsFound /\ LitAt(Written, 0, NearestManifest.name \o SLASH)
         THEN program[SampleImport].source
                = RelativeToManifest
                    \o Slice(Written, Len(NearestManifest.name))
         ELSE (~ManifestIsFound \/ Written # NearestManifest.name) =>
                program[SampleImport].source = Written

====
